---- MODULE Spec2Model ----
(***************************************************************************)
(* A model of daily_weather/main.py: the geocoder, the weather fetcher,    *)
(* the snapshot writer, the relational loader and the two flows (main and  *)
(* query_saved_locations) over the snapshot directory and the two tables   *)
(* of data/weather.db.                                                     *)
(*                                                                         *)
(* Python values: None is the record None, a value v that may be None is   *)
(* Some(v), and a call that ends in an uncaught exception is Raise(name).  *)
(* Floats (coordinates) are fixed-point integers, degrees * 10^4.          *)
(***************************************************************************)
EXTENDS Integers, Sequences, FiniteSets, Bags, TLC

\* The number of snapshot files the runs of one behaviour may write.
MaxWrites == 3
\* The number of rows the direct calls of the loader may put in current_weather.
MaxRows == 3

VARIABLES now, dirExists, files, stamp, nwrites, tablesExist,
          current_weather, location, pc, run

vars == <<now, dirExists, files, stamp, nwrites, tablesExist,
          current_weather, location, pc, run>>

----------------------------------------------------------------------------
\* Python values

None == [kind |-> "None"]
Some(v) == [kind |-> "value", val |-> v]
Raise(e) == [kind |-> "raise", exc |-> e]

\* The truth value of a number in `if lat:`.
Truthy(x) == x # 0

----------------------------------------------------------------------------
\* Module-level configuration

BASE_URL == "http://api.openweathermap.org/"
JSON_DIR == "data/json"

----------------------------------------------------------------------------
\* The inputs: what the two HTTP endpoints answer, the command line, the clock

\* raise_for_status passes 1xx to 3xx and raises on 4xx and 5xx.
Statuses == {200, 304, 404}

GeoLats == {0, 336300, -1123314}
GeoLons == {-1123314, 336300}

\* A geocoding body: the documented one, or one that lacks lat, lon or both.
GeoBodies ==
    {[zip |-> "85374", name |-> "Surprise", lat |-> la, lon |-> lo, country |-> "US"] :
        la \in GeoLats, lo \in GeoLons}
    \cup {[zip |-> "85374", name |-> "Surprise", lat |-> la, country |-> "US"] :
        la \in GeoLats}
    \cup {[zip |-> "85374", name |-> "Surprise", lon |-> lo, country |-> "US"] :
        lo \in GeoLons}
    \cup {[cod |-> "200", message |-> "ok"]}

\* requests.get raises a RequestException (kind "error") or returns a response.
GeoResponses ==
    {[kind |-> "error"]}
    \cup {[kind |-> "http", status |-> s, body |-> b] : s \in Statuses, b \in GeoBodies}

\* The geocoder's answers to the runs of main: one of each kind.
MainGeoResponses ==
    {g \in GeoResponses :
        \/ g.kind = "error"
        \/ /\ g.kind = "http"
           /\ g.status \in {200, 404}
           /\ "lon" \in DOMAIN g.body => g.body.lon = -1123314
           /\ "lat" \in DOMAIN g.body => g.body.lat \in {0, 336300}
           /\ g.status = 404 => DOMAIN g.body = {"cod", "message"}}

Ids == {1, 2}
Names == {"A", "B"}

\* A current-conditions body of the provider's schema.
WeatherBody(id, name) ==
    [id |-> id, name |-> name, dt |-> 1700003600,
     sys |-> [country |-> "US", sunrise |-> 1700000000, sunset |-> 1700040000],
     coord |-> [lon |-> -1123314, lat |-> 336300 + id],
     weather |-> <<[main |-> "Clear", description |-> "clear sky"]>>,
     main |-> [temp |-> 70, feels_like |-> 69, temp_min |-> 60, temp_max |-> 80,
               pressure |-> 1013, humidity |-> 20],
     wind |-> [speed |-> 5, deg |-> 180],
     clouds |-> [all |-> 0]]

\* The same body without its sys object, and one without its id.
BodyNoSys(id, name) ==
    [f \in DOMAIN WeatherBody(id, name) \ {"sys"} |-> WeatherBody(id, name)[f]]
BodyNoId(name) ==
    [f \in DOMAIN WeatherBody(1, name) \ {"id"} |-> WeatherBody(1, name)[f]]

GoodBodies == {WeatherBody(i, n) : i \in Ids, n \in Names}
WeatherBodies == GoodBodies \cup {BodyNoSys(1, "A"), BodyNoId("A")}

WeatherResponses ==
    {[kind |-> "error"]}
    \cup {[kind |-> "http", status |-> 200, body |-> b] : b \in WeatherBodies}
    \cup {[kind |-> "http", status |-> 404, body |-> WeatherBody(1, "A")]}

\* args.zip: None when the flag is absent.
Argv == {None, Some("85374")}

\* datetime.now(): a naive local time.
Time(y, mo, d, h, mi, s) ==
    [year |-> y, month |-> mo, day |-> d, hour |-> h, minute |-> mi, second |-> s]
Times == <<Time(2026, 1, 11, 0, 5, 0), Time(2026, 1, 11, 0, 5, 30),
           Time(2026, 11, 1, 0, 5, 0)>>

\* The current value of the wall clock, an index into Times.
datetime_now == Times[now]

----------------------------------------------------------------------------
\* get_coordinates_by_zip and get_current_weather

\* response.raise_for_status(): an HTTPError for a 4xx or 5xx status.
raise_for_status(response) == response.status >= 400 /\ response.status < 600

\* The request the geocoder sends: the default zip when none is given.
geo_request(zip_code) ==
    [url |-> BASE_URL \o "geo/1.0/zip",
     zip |-> IF zip_code = None THEN "85374" ELSE zip_code.val]

\* get_coordinates_by_zip with the pair built in the other order.
get_coordinates_by_zip_swapped(zip_code, response) ==
    IF response.kind = "error" THEN None
    ELSE IF response.status >= 400 /\ response.status < 600 THEN None
    ELSE IF "lat" \notin DOMAIN response.body THEN Raise("KeyError")
    ELSE IF "lon" \notin DOMAIN response.body THEN Raise("KeyError")
    ELSE Some(<<response.body.lon, response.body.lat>>)

\* What get_coordinates_by_zip gives its caller when requests.get answers
\* `response`: the pair, None after a caught RequestException, or the
\* KeyError of a body without the key, which its except clause does not catch.
get_coordinates_by_zip(zip_code, response) ==
    IF response.kind = "error" THEN None
    ELSE IF raise_for_status(response) THEN None
    ELSE IF "lat" \notin DOMAIN response.body THEN Raise("KeyError")
    ELSE IF "lon" \notin DOMAIN response.body THEN Raise("KeyError")
    ELSE Some(<<response.body.lat, response.body.lon>>)

\* What get_current_weather returns: the body, or None after a caught
\* RequestException.
get_current_weather(lat, lon, response) ==
    IF response.kind = "error" THEN None
    ELSE IF raise_for_status(response) THEN None
    ELSE Some(response.body)

----------------------------------------------------------------------------
\* write_result_to_json

Pad2(n) == IF n < 10 THEN "0" \o ToString(n) ELSE ToString(n)

\* strftime with the unpadded fields of "%Y%-m%-d%-H%-M".
strftime_unpadded(t) ==
    ToString(t.year) \o ToString(t.month) \o ToString(t.day) \o ToString(t.hour)
        \o ToString(t.minute)

\* datetime.strftime("%Y%m%d%H%M")
strftime(t) ==
    ToString(t.year) \o Pad2(t.month) \o Pad2(t.day) \o Pad2(t.hour) \o Pad2(t.minute)

\* f"{result['id']}_{time_str}.json"
filename(result, t) == ToString(result.id) \o "_" \o strftime(t) \o ".json"

\* os.path.join(JSON_DIR, filename)
file_path(result, t) == JSON_DIR \o "/" \o filename(result, t)

\* The call on `result` (None or Some(body)) at time t over the files fs:
\* what it returns or raises, and the directory and the files afterwards.
\* The directory is made before the file name is built.
write_result_to_json(result, t, fs) ==
    IF result = None
    THEN [ret |-> Raise("TypeError"), dirExists |-> TRUE, files |-> fs]
    ELSE IF "id" \notin DOMAIN result.val
    THEN [ret |-> Raise("KeyError"), dirExists |-> TRUE, files |-> fs]
    ELSE LET p == file_path(result.val, t)
         IN [ret |-> Some(p), dirExists |-> TRUE,
             files |-> [q \in DOMAIN fs \cup {p} |->
                           IF q = p THEN result.val ELSE fs[q]]]

----------------------------------------------------------------------------
\* The relational loader over the tables of data/weather.db (bags of rows)

\* The tables as create_tables.sql makes them: empty, with no constraint.
EmptyTable == EmptyBag

\* DuckDB's to_timestamp: epoch seconds to a timestamp value.
to_timestamp(epoch) == [timestamp |-> epoch]

\* The fields the SELECT of load_data_to_current_weather reads.
Loadable(body) ==
    {"id", "name", "sys", "coord", "weather", "dt", "main", "wind", "clouds"}
        \subseteq DOMAIN body

\* The row the SELECT builds from a snapshot.
weather_row(body) ==
    [location_id |-> body.id,
     location_name |-> body.name,
     location_country |-> body.sys.country,
     sunrise |-> to_timestamp(body.sys.sunrise),
     sunset |-> to_timestamp(body.sys.sunrise),
     location_lon |-> body.coord.lon,
     location_lat |-> body.coord.lat,
     weather_main |-> body.weather[1].main,
     weather_description |-> body.weather[1].description,
     timestamp_local |-> to_timestamp(body.dt),
     temperature |-> body.main.temp,
     temperature_feels_like |-> body.main.feels_like,
     temperature_min |-> body.main.temp_min,
     temperature_max |-> body.main.temp_max,
     pressure |-> body.main.pressure,
     humidity |-> body.main.humidity,
     wind_speed |-> body.wind.speed,
     wind_degrees |-> body.wind.deg,
     clouds |-> body.clouds.all]

\* The call: one row appended, or a duckdb.Error caught (no table, no file,
\* a body the SELECT cannot bind) and nothing changed.
load_data_to_current_weather(json_file, fs, tables, cw) ==
    IF tables /\ json_file \in DOMAIN fs /\ Loadable(fs[json_file])
    THEN [ok |-> TRUE, current_weather |-> cw (+) SetToBag({weather_row(fs[json_file])})]
    ELSE [ok |-> FALSE, current_weather |-> cw]

\* A location row from an observation row.
location_row(r) ==
    [id |-> r.location_id, name |-> r.location_name, country |-> r.location_country,
     lon |-> r.location_lon, lat |-> r.location_lat]

\* The SELECT DISTINCT without its ANTI JOIN.
anti_join_dropped(cw, loc) == {location_row(r) : r \in BagToSet(cw)}

\* SELECT DISTINCT ... FROM current_weather cw ANTI JOIN location l
\*     ON l.id = cw.location_id
anti_join(cw, loc) ==
    {location_row(r) : r \in {x \in BagToSet(cw) :
        \A l \in BagToSet(loc) : l.id # x.location_id}}

\* load_data_to_location as an upsert: the rows of a selected identifier are
\* replaced by the rows of the observations.
load_data_to_location_upsert(tables, cw, loc) ==
    IF tables
    THEN [ok |-> TRUE, location |-> SetToBag({location_row(r) : r \in BagToSet(cw)})]
    ELSE [ok |-> FALSE, location |-> loc]

\* The call: the selected rows inserted, or a duckdb.Error caught.
load_data_to_location(tables, cw, loc) ==
    IF tables
    THEN [ok |-> TRUE, location |-> loc (+) SetToBag(anti_join(cw, loc))]
    ELSE [ok |-> FALSE, location |-> loc]

\* SELECT DISTINCT name, lat, lon FROM location
saved_locations(loc) == {<<l.name, l.lat, l.lon>> : l \in BagToSet(loc)}

\* The sequences that list each element of S once: the orders fetchall may give.
Orders(S) ==
    {s \in [1..Cardinality(S) -> S] : \A i, j \in 1..Cardinality(S) : s[i] = s[j] => i = j}

\* For the claims: the rows of the set S in the bag b, counted with their
\* copies, and the location rows of identifier i.
RECURSIVE SumCopies(_, _)
SumCopies(b, S) ==
    IF S = {} THEN 0
    ELSE LET x == CHOOSE y \in S : TRUE
         IN CopiesIn(x, b) + SumCopies(b, S \ {x})
CountId(loc, i) == SumCopies(loc, {l \in BagToSet(loc) : l.id = i})

----------------------------------------------------------------------------
\* The state after a fresh checkout: no snapshot directory, no tables

Init ==
    /\ now = 1
    /\ dirExists = FALSE
    /\ files = [q \in {} |-> None]
    /\ stamp = {}
    /\ nwrites = 0
    /\ tablesExist = FALSE
    /\ current_weather = EmptyTable
    /\ location = EmptyTable
    /\ pc = "idle"
    /\ run = [op |-> "start", flow |-> "none"]

\* The wall clock moves on.
Tick ==
    /\ now < Len(Times)
    /\ now' = now + 1
    /\ UNCHANGED <<dirExists, files, stamp, nwrites, tablesExist,
                   current_weather, location, pc, run>>

\* The time truncated to the minute.
Minute(t) == [t EXCEPT !.second = 0]

\* The snapshot store after the call w of write_result_to_json on `result`.
Written(result, w) ==
    /\ dirExists' = w.dirExists
    /\ files' = w.files
    /\ IF w.ret.kind = "value"
       THEN /\ nwrites' = nwrites + 1
            /\ stamp' = stamp \cup {[id |-> result.val.id, minute |-> Minute(datetime_now),
                                     path |-> w.ret.val]}
       ELSE UNCHANGED <<nwrites, stamp>>

\* create_db(): the tables exist afterwards; existing tables are kept.
create_db == tablesExist' = TRUE

----------------------------------------------------------------------------
\* main(): the bootstrap flow

\* A finished run of main; `did` tells what it got done.
main_log(argv, zip_code, coords, wx, did, printed, raised) ==
    [op |-> "run", flow |-> "bootstrap", entry |-> "main", argv |-> argv,
     zip |-> geo_request(zip_code).zip, coords |-> coords, wx |-> wx,
     fetched |-> did.fetched, wrote |-> did.wrote, created |-> did.created,
     loaded |-> did.loaded, derived |-> did.derived, printed |-> printed,
     raised |-> raised, exit |-> IF raised = "" THEN 0 ELSE 1, done |-> TRUE]

\* Nothing fetched, written, created, loaded or derived.
did_nothing ==
    [fetched |-> FALSE, wrote |-> FALSE, created |-> FALSE, loaded |-> 0, derived |-> 0]

\* The run stops before anything is fetched or stored.
main_stops(log) ==
    /\ run' = log
    /\ UNCHANGED <<now, dirExists, files, stamp, nwrites, tablesExist,
                   current_weather, location, pc>>

\* Lines 203-207: fetch, write, create the tables, load, derive.
main_body(argv, zip_code, coords, wx) ==
    LET data == get_current_weather(coords.val[1], coords.val[2], wx)
        w == write_result_to_json(data, datetime_now, files)
        ld == load_data_to_current_weather(
                  IF w.ret.kind = "value" THEN w.ret.val ELSE "", w.files, TRUE,
                  current_weather)
        dv == load_data_to_location(TRUE, ld.current_weather, location)
        fetch_msg == IF data = None THEN <<"Error fetching data">> ELSE <<>>
    IN /\ Written(data, w)
       /\ IF w.ret.kind = "raise"
          THEN /\ run' = main_log(argv, zip_code, coords, wx,
                                  [did_nothing EXCEPT !.fetched = TRUE],
                                  fetch_msg, w.ret.exc)
               /\ UNCHANGED <<tablesExist, current_weather, location>>
          ELSE /\ create_db
               /\ current_weather' = ld.current_weather
               /\ location' = dv.location
               /\ run' = main_log(argv, zip_code, coords, wx,
                                  [fetched |-> TRUE, wrote |-> TRUE, created |-> TRUE,
                                   loaded |-> BagCardinality(ld.current_weather)
                                                - BagCardinality(current_weather),
                                   derived |-> BagCardinality(dv.location)
                                                 - BagCardinality(location)],
                                  IF ld.ok THEN <<>>
                                  ELSE <<"Error loading data to database">>,
                                  "")
       /\ UNCHANGED <<now, pc>>

\* Lines 193-209. The unpacking of line 200 raises TypeError on None.
main(argv, geo) ==
    /\ pc = "idle"
    /\ nwrites < MaxWrites
    /\ LET zip_code == IF argv # None /\ argv.val # "" THEN argv ELSE None
           coords == get_coordinates_by_zip(zip_code, geo)
           unused == [kind |-> "unused"]
       IN IF coords.kind = "raise"
          THEN main_stops(main_log(argv, zip_code, coords, unused, did_nothing,
                                   <<>>, coords.exc))
          ELSE IF coords.kind = "None"
          THEN main_stops(main_log(argv, zip_code, coords, unused, did_nothing,
                                   <<"Error fetching data">>, "TypeError"))
          ELSE IF Truthy(coords.val[1])
          THEN \E wx \in WeatherResponses : main_body(argv, zip_code, coords, wx)
          ELSE main_stops(main_log(argv, zip_code, coords, unused, did_nothing,
                                   <<"Failed to fetch location data.">>, ""))

Main == \E argv \in Argv, geo \in MainGeoResponses : main(argv, geo)

----------------------------------------------------------------------------
\* The script entry (__main__) and query_saved_locations(): the refresh flow

refresh_log(argv, batch, pos, results, wx, printed, raised, done) ==
    [op |-> "run", flow |-> "refresh", entry |-> "__main__", argv |-> argv,
     batch |-> batch, pos |-> pos, results |-> results, wx |-> wx,
     printed |-> printed, raised |-> raised,
     exit |-> IF raised = "" THEN 0 ELSE 1, done |-> done]

\* The process starts: the query, and fetchall's rows in some order.
query_saved_locations(argv) ==
    /\ pc = "idle"
    /\ IF ~tablesExist
       THEN /\ run' = refresh_log(argv, <<>>, 1, <<>>, [kind |-> "unused"],
                                  <<"DuckDB error">>, "", TRUE)
            /\ pc' = "idle"
       ELSE \E batch \in Orders(saved_locations(location)) :
              /\ run' = refresh_log(argv, batch, 1, <<>>, [kind |-> "unused"], <<>>, "",
                                    batch = <<>>)
              /\ pc' = IF batch = <<>> THEN "idle" ELSE "refresh"
    /\ UNCHANGED <<now, dirExists, files, stamp, nwrites, tablesExist,
                   current_weather, location>>

ScriptEntry == \E argv \in Argv : query_saved_locations(argv)

\* One pass of the loop body, lines 184-188, on the next row.
refresh_step(wx) ==
    /\ pc = "refresh"
    /\ nwrites < MaxWrites
    /\ LET loc == run.batch[run.pos]
           data == get_current_weather(loc[2], loc[3], wx)
           w == write_result_to_json(data, datetime_now, files)
           ld == load_data_to_current_weather(
                     IF w.ret.kind = "value" THEN w.ret.val ELSE "", w.files,
                     tablesExist, current_weather)
           succeeds == wx.kind = "http" /\ ~raise_for_status(wx) /\ Loadable(wx.body)
           fetch_msg == IF data = None THEN <<"Error fetching data">> ELSE <<>>
       IN /\ Written(data, w)
          /\ IF w.ret.kind = "raise"
             THEN /\ run' = refresh_log(run.argv, run.batch, run.pos, run.results, wx,
                                        run.printed \o fetch_msg, w.ret.exc, TRUE)
                  /\ pc' = "idle"
                  /\ UNCHANGED current_weather
             ELSE /\ current_weather' = ld.current_weather
                  /\ run' = refresh_log(run.argv, run.batch, run.pos + 1,
                               Append(run.results,
                                      [succeeds |-> succeeds,
                                       added |-> BagCardinality(ld.current_weather)
                                                   - BagCardinality(current_weather)]),
                               wx,
                               run.printed \o
                                 (IF ld.ok THEN <<>>
                                  ELSE <<"Error loading data to database">>),
                               "", run.pos = Len(run.batch))
                  /\ pc' = IF run.pos = Len(run.batch) THEN "idle" ELSE "refresh"
    /\ UNCHANGED <<now, tablesExist, location>>

RefreshStep == \E wx \in WeatherResponses : refresh_step(wx)

Next == Main \/ ScriptEntry \/ RefreshStep \/ Tick

Spec == Init /\ [][Next]_vars

----------------------------------------------------------------------------
\* The functions called one by one (a test, a REPL, a scheduled job)

CallCreateDb ==
    /\ pc = "idle"
    /\ create_db
    /\ run' = [op |-> "create_db", flow |-> "call"]
    /\ UNCHANGED <<now, dirExists, files, stamp, nwrites, current_weather, location, pc>>

call_write(result) ==
    /\ pc = "idle"
    /\ nwrites < MaxWrites
    /\ LET w == write_result_to_json(result, datetime_now, files)
           existed == w.ret.kind = "value" /\ w.ret.val \in DOMAIN files
       IN /\ Written(result, w)
          /\ run' = [op |-> "write", flow |-> "call", result |-> result,
                     time |-> datetime_now, ret |-> w.ret, existed |-> existed,
                     before |-> IF existed THEN Some(files[w.ret.val]) ELSE None]
    /\ UNCHANGED <<now, tablesExist, current_weather, location, pc>>

CallWrite == \E result \in {None} \cup {Some(b) : b \in WeatherBodies} : call_write(result)

call_load(json_file) ==
    /\ pc = "idle"
    /\ BagCardinality(current_weather) < MaxRows
    /\ LET ld == load_data_to_current_weather(json_file, files, tablesExist,
                                              current_weather)
       IN /\ current_weather' = ld.current_weather
          /\ run' = [op |-> "load", flow |-> "call", json_file |-> json_file,
                     ok |-> ld.ok,
                     added |-> BagCardinality(ld.current_weather)
                                 - BagCardinality(current_weather)]
    /\ UNCHANGED <<now, dirExists, files, stamp, nwrites, tablesExist, location, pc>>

CallLoad == \E json_file \in DOMAIN files \cup {JSON_DIR \o "/missing.json"} :
                call_load(json_file)

\* nth: 2 when the call before this one was load_data_to_location too;
\* prev: what that call inserted.
CallDerive ==
    /\ pc = "idle"
    /\ LET dv == load_data_to_location(tablesExist, current_weather, location)
       IN /\ location' = dv.location
          /\ run' = [op |-> "derive", flow |-> "call", ok |-> dv.ok,
                     inserted |-> BagCardinality(dv.location) - BagCardinality(location),
                     nth |-> IF run.op = "derive" THEN 2 ELSE 1,
                     prev |-> IF run.op = "derive" THEN run.inserted ELSE 0]
    /\ UNCHANGED <<now, dirExists, files, stamp, nwrites, tablesExist,
                   current_weather, pc>>

NextCalls == CallCreateDb \/ CallWrite \/ CallLoad \/ CallDerive \/ Tick

SpecCalls == Init /\ [][NextCalls]_vars

\* The geocoder called on its own.
ZipCodes == {None, Some("85374"), Some("10001")}

call_geo(zip_code, response) ==
    /\ pc = "idle"
    /\ run' = [op |-> "get_coordinates_by_zip", flow |-> "call", zip_code |-> zip_code,
               request |-> geo_request(zip_code), response |-> response,
               ret |-> get_coordinates_by_zip(zip_code, response)]
    /\ UNCHANGED <<now, dirExists, files, stamp, nwrites, tablesExist,
                   current_weather, location, pc>>

CallGeo == \E zip_code \in ZipCodes, response \in GeoResponses : call_geo(zip_code, response)

NextGeo == CallGeo

SpecGeo == Init /\ [][NextGeo]_vars

----------------------------------------------------------------------------
\* The claims

\* C1: a finished refresh has processed every saved location: a location
\* whose fetch and load succeed got exactly one new observation row, a failing
\* one got none, and no exception escaped the batch.
C1_RefreshIsolatesFailures ==
    (run.flow = "refresh" /\ run.done) =>
        /\ run.raised = ""
        /\ Len(run.results) = Len(run.batch)
        /\ \A k \in 1..Len(run.results) :
               run.results[k].added = IF run.results[k].succeeds THEN 1 ELSE 0

\* C2: a run of main whose geocoder lookup failed printed the failure message,
\* raised nothing, and fetched, wrote, created and inserted nothing.
C2_LookupFailureAborts ==
    (run.flow = "bootstrap" /\ run.coords.kind = "None") =>
        /\ \E k \in 1..Len(run.printed) : run.printed[k] = "Failed to fetch location data."
        /\ run.raised = ""
        /\ ~run.fetched /\ ~run.wrote /\ ~run.created
        /\ run.loaded = 0 /\ run.derived = 0

\* C3: for a geocoding response with a non-2xx status or a body without lat
\* or lon, get_coordinates_by_zip returns the failure value and raises nothing.
C3_BadResponseIsLookupFailed ==
    (/\ run.op = "get_coordinates_by_zip"
     /\ run.response.kind = "http"
     /\ \/ run.response.status \notin 200..299
        \/ "lat" \notin DOMAIN run.response.body
        \/ "lon" \notin DOMAIN run.response.body)
    => run.ret.kind = "None"

\* C4: a process started through the script entry runs the bootstrap flow
\* when the zip flag is given and the refresh flow when it is absent.
C4_FlagSelectsFlow ==
    (run.op = "run" /\ run.entry = "__main__") =>
        /\ run.argv # None => run.flow = "bootstrap"
        /\ run.argv = None => run.flow = "refresh"

\* C5: no identifier has more than one row in the location table.
C5_LocationIdUnique == \A i \in Ids : CountId(location, i) <= 1

\* C6: a run of main whose geocoder resolved the zip code went on to fetch,
\* and when the fetch returned a payload with identifier i the run added
\* exactly one observation row, of location_id i, and the location table
\* holds exactly one row of id i.
C6_BootstrapAddsOneRow ==
    (run.flow = "bootstrap" /\ run.coords.kind = "value") =>
        /\ run.fetched
        /\ (run.wx.kind = "http" /\ run.wx.status = 200 /\ run.wx.body \in GoodBodies) =>
              /\ run.loaded = 1
              /\ CopiesIn(weather_row(run.wx.body), current_weather) >= 1
              /\ CountId(location, run.wx.body.id) = 1

\* C7: a call of load_data_to_location right after another one inserts no
\* row and leaves the location table as the first call left it.
C7_DeriveIdempotent ==
    [][(run.op = "derive" /\ run'.op = "derive" /\ run'.nth = 2) =>
          (location' = location /\ run'.inserted = 0)]_vars

\* C7's case: the first call inserted rows, the second ran and inserted none.
C7_Witness ==
    /\ run.op = "derive" /\ run.nth = 2
    /\ run.prev >= 1 /\ run.inserted = 0
    /\ BagCardinality(location) >= 1

\* C8: a snapshot write puts its payload at its path and leaves every other
\* file as it was, and its path is that of an earlier write exactly when that
\* write was for the same location identifier in the same minute.
C8_SnapshotPath ==
    [][(run'.op = "write" /\ nwrites' = nwrites + 1) =>
          LET p == run'.ret.val
              b == run'.result.val
          IN /\ files'[p] = b
             /\ DOMAIN files' = DOMAIN files \cup {p}
             /\ \A q \in DOMAIN files \ {p} : files'[q] = files[q]
             /\ \A a \in stamp :
                    (a.path = p) <=> (a.id = b.id /\ a.minute = Minute(run'.time))]_vars

\* C8's case: a second write for the same location in the same minute has
\* replaced a different first payload, and a file of another path is there.
C8_Witness ==
    /\ run.op = "write" /\ run.existed
    /\ run.before # run.result
    /\ files[run.ret.val] = run.result.val
    /\ Cardinality(DOMAIN files) >= 2

\* C9: for a 2xx geocoding response whose body has lat and lon,
\* get_coordinates_by_zip returns the pair (lat, lon) of the body.
C9_ResolveReturnsPair ==
    (/\ run.op = "get_coordinates_by_zip"
     /\ run.response.kind = "http"
     /\ run.response.status \in 200..299
     /\ {"lat", "lon"} \subseteq DOMAIN run.response.body)
    => run.ret = Some(<<run.response.body.lat, run.response.body.lon>>)

\* C9's case: the response of the repository's test.
C9_Witness ==
    /\ run.op = "get_coordinates_by_zip"
    /\ run.response.kind = "http" /\ run.response.status = 200
    /\ {"lat", "lon"} \subseteq DOMAIN run.response.body
    /\ run.ret = Some(<<336300, -1123314>>)

\* C10: every step keeps the rows of both tables, a row added to location
\* has an identifier the table did not hold, and a step of the refresh flow
\* adds no location row.
C10_TablesOnlyGrow ==
    [][/\ current_weather \sqsubseteq current_weather'
       /\ location \sqsubseteq location'
       /\ \A l \in BagToSet(location') :
              CopiesIn(l, location') > CopiesIn(l, location) =>
                  \A m \in BagToSet(location) : m.id # l.id
       /\ run'.flow = "refresh" => location' = location]_vars

\* C10's case: a bootstrap loaded an observation whose identifier the
\* location table already held under another name, next to another location,
\* and derived nothing.
C10_Witness ==
    /\ run.flow = "bootstrap" /\ run.loaded = 1 /\ run.derived = 0
    /\ \E l \in BagToSet(location) :
           l.id = run.wx.body.id /\ l.name # run.wx.body.name
    /\ BagCardinality(location) >= 2

====
